---- MODULE Spec2Model ----
(***************************************************************************)
(* A model of serdepa (serdepa/serdepa.py): the field types, the metaclass *)
(* that validates a _fields_ list, and the packet engine that constructs,   *)
(* serializes and deserializes packet instances.                           *)
(*                                                                         *)
(* Python objects are modelled by value, and the places where the code      *)
(* shares one object between several packets are modelled as shared state:  *)
(*   - BaseField.__call__ is copy.copy(self), a shallow copy.  Every copy   *)
(*     of a Length descriptor keeps the descriptor's one _type scalar       *)
(*     (variable lengthType), and every copy of a ByteString descriptor     *)
(*     keeps the descriptor's one _data_container (variable dataContainer). *)
(*   - a List or Array copy is rebuilt element by element, so its elements  *)
(*     belong to the copy.                                                  *)
(* 64 bit scalars are left out: their values do not fit the integers of the *)
(* model checker.                                                           *)
(***************************************************************************)
EXTENDS Integers, Sequences, FiniteSets, TLC

VARIABLES
    cls,            \* name of the packet class the instances belong to
    inst,           \* inst[i]: the packet instance i, or NoPacket before construction
    lengthType,     \* lengthType[<<class, field>>]: _value of that Length descriptor's _type
    dataContainer,  \* dataContainer[<<class, field>>]: items of that ByteString descriptor's _data_container
    wire,           \* the bytes returned by the latest successful serialize()
    sender,         \* the instance whose serialize() returned wire, 0 before any
    out,            \* the latest operation: what was called and what it returned or raised
    fresh,          \* fresh[i]: instance i was constructed without arguments and not used since
    nops,           \* number of operations performed so far
    candidate,      \* a _fields_ list handed to the metaclass
    defined,        \* what the metaclass made of candidate
    thread          \* thread[t]: the call thread t is running on inst[t], field by field

vars == <<cls, inst, lengthType, dataContainer, wire, sender, out, fresh, nops, candidate, defined,
          thread>>

-----------------------------------------------------------------------------
(* Bounds of the model.                                                    *)

\* the number of operations performed on the instances in one behaviour
MaxOps == 4

\* the longest list the append action builds
MaxLen == 2

\* the longest _fields_ list handed to the metaclass
MaxFields == 3

-----------------------------------------------------------------------------
(* Helpers on sequences.                                                   *)

Min(a, b) == IF a < b THEN a ELSE b

Max(a, b) == IF a > b THEN a ELSE b

RECURSIVE Pow256(_)
Pow256(n) == IF n = 0 THEN 1 ELSE 256 * Pow256(n - 1)

\* data[pos:pos+n] of Python: the slice is cut at the end of data
Slice(data, pos, n) == SubSeq(data, pos + 1, Min(pos + n, Len(data)))

-----------------------------------------------------------------------------
(* The scalar types: _length (bits), _signed and the byte order of _format. *)

IntType(bits, signed, be) == [kind |-> "int", bits |-> bits, signed |-> signed, be |-> be]

nx_uint8 == IntType(8, FALSE, TRUE)

nx_int8 == IntType(8, TRUE, TRUE)

uint8 == IntType(8, FALSE, FALSE)

int8 == IntType(8, TRUE, FALSE)

nx_uint16 == IntType(16, FALSE, TRUE)

nx_int16 == IntType(16, TRUE, TRUE)

uint16 == IntType(16, FALSE, FALSE)

int16 == IntType(16, TRUE, FALSE)

nx_uint32 == IntType(32, FALSE, TRUE)

nx_int32 == IntType(32, TRUE, TRUE)

uint32 == IntType(32, FALSE, FALSE)

int32 == IntType(32, TRUE, FALSE)

\* BaseInt.serialized_size: ceil(_length / 8.0)
BaseInt_serialized_size(t) == (t.bits + 7) \div 8

\* the values struct.pack accepts for the format; every integer of the model
\* is below 2^31, so a 32 bit format bounds it on the unsigned side only
InRange(t, v) ==
    IF t.signed
    THEN t.bits = 32 \/ (v >= -(Pow256(BaseInt_serialized_size(t)) \div 2)
                         /\ v < Pow256(BaseInt_serialized_size(t)) \div 2)
    ELSE v >= 0 /\ (t.bits = 32 \/ v < Pow256(BaseInt_serialized_size(t)))

\* struct.pack(_format, v): two's complement, most significant byte first
\* for ">" and last for "<"
Pack(t, v) ==
    LET n == BaseInt_serialized_size(t)
    IN [i \in 1..n |->
            IF t.be THEN (v \div Pow256(n - i)) % 256
                    ELSE (v \div Pow256(i - 1)) % 256]

RECURSIVE BigEndianValue(_)
BigEndianValue(bytes) ==
    IF bytes = <<>> THEN 0
    ELSE BigEndianValue(SubSeq(bytes, 1, Len(bytes) - 1)) * 256 + bytes[Len(bytes)]

Reverse(s) == [i \in 1..Len(s) |-> s[Len(s) + 1 - i]]

\* struct.unpack(_format, bytes)[0] for len(bytes) = size of the format
Unpack(t, bytes) ==
    LET be == IF t.be THEN bytes ELSE Reverse(bytes)
        top == IF t.signed /\ be[1] >= 128 THEN be[1] - 256 ELSE be[1]
    IN top * Pow256(Len(be) - 1) + BigEndianValue(Tail(be))

\* BaseInt.serialize: struct.pack raises struct.error for a value out of range
BaseInt_serialize(t, v) ==
    IF InRange(t, v) THEN [ok |-> TRUE, bytes |-> Pack(t, v)]
                     ELSE [ok |-> FALSE, bytes |-> <<>>]

\* BaseInt.deserialize: struct.error on a short slice becomes ValueError
BaseInt_deserialize(t, data, pos) ==
    LET n == BaseInt_serialized_size(t)
        slice == Slice(data, pos, n)
    IN IF Len(slice) # n
       THEN [ok |-> FALSE, value |-> 0, pos |-> pos]
       ELSE [ok |-> TRUE, value |-> Unpack(t, slice), pos |-> pos + n]

-----------------------------------------------------------------------------
(* The field types other than scalars.                                     *)

\* Length(object_type, field_name)
Length(object_type, field_name) ==
    [kind |-> "Length", type |-> object_type, field |-> field_name]

\* List(object_type)
List(object_type) == [kind |-> "List", type |-> object_type]

\* Array(object_type, length)
Array(object_type, length) == [kind |-> "Array", type |-> object_type, length |-> length]

\* ByteString(length): _data_container is Array(nx_uint8, length)
ByteString(length) == [kind |-> "ByteString", container |-> Array(nx_uint8, length)]

\* ByteString(): length is None and _data_container is List(nx_uint8)
ByteStringVar == [kind |-> "ByteString", container |-> List(nx_uint8)]

\* a field whose type is a SerdepaPacket subclass
Packet(name) == [kind |-> "packet", cls |-> name]

\* an entry of _fields_: a 2-tuple (name, type) or a 3-tuple (name, type, default)
Field2(name, type) == [len |-> 2, name |-> name, type |-> type, default |-> <<>>]

Field3(name, type, default) == [len |-> 3, name |-> name, type |-> type, default |-> <<default>>]

\* an entry that is neither: a 1-tuple (name,)
Field1(name) == [len |-> 1, name |-> name, type |-> nx_uint8, default |-> <<>>]

-----------------------------------------------------------------------------
(* Ordered dictionaries (_fields, _depends, _field_registry are filled in   *)
(* _fields_ order): a sequence of [key, value] in order of first insertion. *)

DictKeys(d) == {d[i].key : i \in 1..Len(d)}

DictValues(d) == {d[i].value : i \in 1..Len(d)}

DictGet(d, key) == d[CHOOSE i \in 1..Len(d) : d[i].key = key].value

\* d[key] = value: a key already present keeps its place
DictSet(d, key, value) ==
    IF key \in DictKeys(d)
    THEN [i \in 1..Len(d) |-> IF d[i].key = key THEN [key |-> key, value |-> value] ELSE d[i]]
    ELSE Append(d, [key |-> key, value |-> value])

-----------------------------------------------------------------------------
(* The metaclass, SuperSerdepaPacket.__init__.                             *)

\* a == b for two field type objects, the first a List or a ByteString
\* descriptor: list.__eq__ compares the items of two list subclasses (both
\* descriptors are empty), ByteString.__eq__ compares _value (0 for both)
TypeEq(a, b) ==
    \/ a.kind = "List" /\ b.kind \in {"List", "Array"}
    \/ a.kind = "ByteString" /\ b.kind = "ByteString"

\* field == attrs['_fields_'][-1] for a List or ByteString entry: tuples are
\* equal when they have the same length and equal members
IsLastField(fields_, i) ==
    LET field == fields_[i]
        last == fields_[Len(fields_)]
    IN \/ i = Len(fields_)
       \/ /\ field.len = last.len
          /\ field.name = last.name
          /\ TypeEq(field.type, last.type)
          /\ field.default = last.default

NoError == "no error"

LengthDefaultError == "TypeError: A Length field can't have a default value"

UndefinedLengthError == "TypeError: Only the last field can have an undefined length"

NameAndTypeError == "TypeError: A field needs both a name and a type"

\* one round of the loop over attrs['_fields_'] (lines 87-110); add_property
\* never raises, it skips a name the class already has
SuperSerdepaPacket_field(acc, fields_, i) ==
    LET field == fields_[i]
    IN IF acc.error # NoError THEN acc
       ELSE IF field.len \notin {2, 3}
       THEN [acc EXCEPT !.error = NameAndTypeError]
       ELSE IF field.len = 3 /\ field.type.kind = "Length"
       THEN [acc EXCEPT !.error = LengthDefaultError]
       ELSE LET fs == DictSet(acc.fields, field.name,
                              [type |-> field.type, default |-> field.default])
                dep == IF field.type.kind = "Length"
                       THEN DictSet(acc.depends, field.name, field.type.field)
                       ELSE acc.depends
                placed == field.name \in DictValues(dep) \/ IsLastField(fields_, i)
            IN [fields |-> fs,
                depends |-> dep,
                error |-> IF field.type.kind \in {"List", "ByteString"} /\ ~placed
                          THEN UndefinedLengthError
                          ELSE NoError]

RECURSIVE SuperSerdepaPacket_loop(_, _, _)
SuperSerdepaPacket_loop(acc, fields_, i) ==
    IF i > Len(fields_) THEN acc
    ELSE SuperSerdepaPacket_loop(SuperSerdepaPacket_field(acc, fields_, i), fields_, i + 1)

\* SuperSerdepaPacket.__init__(cls, what, bases, attrs) for attrs['_fields_']:
\* the class's _fields and _depends, or the error raised
SuperSerdepaPacket_init(fields_) ==
    SuperSerdepaPacket_loop([fields |-> <<>>, depends |-> <<>>, error |-> NoError], fields_, 1)

-----------------------------------------------------------------------------
(* The packet classes the instances are taken from.                        *)

\* class Point3(Point) is derived from Point; every other class is derived
\* from SerdepaPacket alone
Bases ==
    [c \in {"Point", "Point3", "Inner", "OnePacket", "DefaultValuePacket", "AnotherPacket",
            "ArrayPacket", "FixLenPacket", "LenObjLenPacket", "Wrapper", "SignedLen",
            "Stamp", "StructArrayPacket", "VarLenPacket", "FixLen6Packet"} |->
        IF c = "Point3" THEN {"Point"} ELSE {}]

ClassNames == DOMAIN Bases

\* the _fields_ attribute of each class
ClassFields_(c) ==
    CASE c = "Point" ->
            << Field2("x", nx_int8), Field2("y", uint16) >>
      [] c = "Point3" ->
            << Field2("x", nx_int8), Field2("y", uint16), Field2("z", nx_uint8) >>
      [] c = "Inner" ->
            << Field2("a", nx_uint8), Field2("tail", List(nx_uint8)) >>
      [] c = "OnePacket" ->
            << Field2("header", nx_uint8),
               Field2("length", Length(nx_uint8, "data")),
               Field2("data", List(nx_uint8)),
               Field2("tail", List(uint16)) >>
      [] c = "DefaultValuePacket" ->
            << Field3("header", nx_uint8, 1),
               Field3("timestamp", nx_uint32, 12345),
               Field2("length", Length(nx_uint8, "data")),
               Field3("data", List(nx_uint8), <<1, 2, 3, 4>>),
               Field3("tail", List(nx_uint8), <<5, 6>>) >>
      [] c = "AnotherPacket" ->
            << Field2("header", nx_uint8),
               Field2("origin", Packet("Point")),
               Field2("points", Length(nx_uint8, "data")),
               Field2("data", List(Packet("Point"))) >>
      [] c = "ArrayPacket" ->
            << Field2("count", Length(nx_uint8, "data")),
               Field2("data", Array(nx_uint8, 2)),
               Field2("crc", nx_uint8) >>
      [] c = "FixLenPacket" ->
            << Field2("hdr", nx_uint8), Field2("tail", ByteString(2)) >>
      [] c = "LenObjLenPacket" ->
            << Field2("hdr", nx_uint8),
               Field2("length", Length(nx_uint8, "tail")),
               Field2("tail", ByteStringVar) >>
      [] c = "Wrapper" ->
            << Field2("inner", Packet("Inner")), Field2("crc", nx_uint8) >>
      [] c = "SignedLen" ->
            << Field2("n", Length(nx_int8, "data")),
               Field2("data", List(nx_uint8)),
               Field2("crc", nx_uint8) >>
      [] c = "Stamp" ->
            << Field3("h", nx_uint8, 1), Field2("v", nx_uint8) >>
      [] c = "StructArrayPacket" ->
            << Field2("header", nx_uint8), Field2("data", Array(Packet("Stamp"), 2)) >>
      [] c = "VarLenPacket" ->
            << Field2("hdr", nx_uint16), Field2("tail", ByteStringVar) >>
      [] c = "FixLen6Packet" ->
            << Field2("hdr", nx_uint8), Field2("tail", ByteString(6)) >>

\* what the metaclass leaves on each class: _fields, _depends
ClassTable == [c \in ClassNames |-> SuperSerdepaPacket_init(ClassFields_(c))]

\* cls._fields: name -> [type, default], in order
Fields(c) == ClassTable[c].fields

\* cls._depends: Length field name -> target field name
Depends(c) == ClassTable[c].depends

FieldNames(c) == DictKeys(Fields(c))

FieldType(c, name) == DictGet(Fields(c), name).type

\* issubclass(c, d)
IsSubclass(c, d) == c = d \/ d \in Bases[c]

\* the classes whose instances are driven by the actions
TopClasses == {"OnePacket", "DefaultValuePacket", "AnotherPacket", "ArrayPacket",
               "FixLenPacket", "LenObjLenPacket", "Wrapper", "SignedLen",
               "StructArrayPacket", "VarLenPacket", "FixLen6Packet"}

\* the fields of the class whose type is of one of the kinds
FieldsOfKind(c, kinds) == {n \in FieldNames(c) : FieldType(c, n).kind \in kinds}

\* the fields of all classes whose type is of the given kind
Cells(kind) == UNION {{<<c, n>> : n \in FieldsOfKind(c, {kind})} : c \in ClassNames}

-----------------------------------------------------------------------------
(* Values.  A scalar field holds an integer, a List or Array field the     *)
(* sequence of its items, a nested field a packet [cls, reg]; the state of *)
(* a Length or ByteString field is the shared cell of its descriptor.  The *)
(* shared cells travel through the operators as h = [lt, dc].              *)

Shared == "shared"

NoPacket == [cls |-> "None", reg |-> <<>>]

\* the type whose methods a field's items are handled by: the container of a
\* ByteString (ByteString.__getattr__ forwards to it), else the type itself
Container(type) == IF type.kind = "ByteString" THEN type.container ELSE type

\* the items a field of the given type holds
Items(c, reg, name, type, h) ==
    IF type.kind = "ByteString" THEN h.dc[<<c, name>>] ELSE reg[name]

\* the registry and cells after the items of a field are replaced
WithItems(c, reg, name, type, h, items) ==
    IF type.kind = "ByteString"
    THEN [reg |-> reg, h |-> [h EXCEPT !.dc[<<c, name>>] = items]]
    ELSE [reg |-> [reg EXCEPT ![name] = items], h |-> h]

\* bool(default) of "elif default:"
Truthy(type, default) ==
    /\ default # <<>>
    /\ CASE type.kind = "int" -> default[1] # 0
         [] type.kind \in {"List", "Array", "ByteString"} -> default[1] # <<>>
         [] OTHER -> TRUE

-----------------------------------------------------------------------------
(* Construction: SerdepaPacket.__init__, BaseField.__call__, _set_to.  The  *)
(* operators return [value, h]: the object made and the shared cells.       *)

RECURSIVE SerdepaPacket_init_loop(_, _, _, _, _)
RECURSIVE BaseIterable_set_to(_, _, _, _, _)

\* _type() for the type of a list item: a scalar of value 0 or a new packet
TypeCall(type, h) ==
    IF type.kind = "packet" THEN SerdepaPacket_init_loop(type.cls, <<>>, 1, <<>>, h)
                            ELSE [value |-> 0, h |-> h]

\* BaseIterable.append(value): the item stored for value.  A value that is not
\* an instance of _type becomes _type(initial=value); a packet class ignores
\* the keyword initial, which names none of its fields
NewItem(type, value, h) ==
    IF type.kind = "packet" /\ ~IsSubclass(value.cls, type.cls)
    THEN TypeCall(type, h)
    ELSE [value |-> value, h |-> h]

\* BaseIterable._set_to(values): the list is emptied, then each value appended
BaseIterable_set_to(type, values, i, acc, h) ==
    LET Then(r) == BaseIterable_set_to(type, values, i + 1, Append(acc, r.value), r.h)
    IN IF i > Len(values) THEN [value |-> acc, h |-> h]
       ELSE Then(NewItem(type, values[i], h))

\* _type(initial=initial) when given, else _type(), for field name of class c.
\*   scalar class: BaseInt.__init__(initial)
\*   Length, List, Array, ByteString descriptor: BaseField.__call__, a shallow
\*     copy; the copy of a list is rebuilt empty, the copy of a ByteString keeps
\*     the descriptor's _data_container and _set_to refills that one container
\*   packet class: SerdepaPacket.__init__(initial=...), where initial is no field
FieldInit(c, name, type, given, initial, h) ==
    CASE type.kind = "int" ->
            [value |-> IF given THEN initial ELSE 0, h |-> h]
      [] type.kind = "Length" ->
            [value |-> Shared, h |-> h]
      [] type.kind \in {"List", "Array"} ->
            IF given THEN BaseIterable_set_to(type.type, initial, 1, <<>>, h)
                     ELSE [value |-> <<>>, h |-> h]
      [] type.kind = "ByteString" ->
            [value |-> Shared,
             h |-> IF given THEN [h EXCEPT !.dc[<<c, name>>] = initial] ELSE h]
      [] type.kind = "packet" ->
            SerdepaPacket_init_loop(type.cls, <<>>, 1, <<>>, h)

\* the loop of SerdepaPacket.__init__(**kwargs) from field i on; reg is the
\* registry so far, as an ordered dictionary
SerdepaPacket_init_loop(c, kwargs, i, reg, h) ==
    LET Then(name, r) ==
            SerdepaPacket_init_loop(c, kwargs, i + 1, DictSet(reg, name, r.value), r.h)
        Step(f) ==
            Then(f.key,
                 FieldInit(c, f.key, f.value.type,
                           f.key \in DictKeys(kwargs) \/ Truthy(f.value.type, f.value.default),
                           IF f.key \in DictKeys(kwargs) THEN DictGet(kwargs, f.key)
                           ELSE IF f.value.default # <<>> THEN f.value.default[1] ELSE 0,
                           h))
    IN IF i > Len(Fields(c))
       THEN [value |-> [cls |-> c, reg |-> [n \in DictKeys(reg) |-> DictGet(reg, n)]], h |-> h]
       ELSE Step(Fields(c)[i])

\* SerdepaPacket.__init__(**kwargs): [value |-> the new packet, h |-> the cells]
SerdepaPacket_new(c, kwargs, h) == SerdepaPacket_init_loop(c, kwargs, 1, <<>>, h)

-----------------------------------------------------------------------------
(* Serialization.  Every operator returns [ok, bytes, value, h]: whether    *)
(* the call returned (ok) or raised, the bytes returned, the object after   *)
(* the call and the shared cells after the call.                            *)

RECURSIVE SerdepaPacket_serialize_loop(_, _, _, _)
RECURSIVE BaseIterable_serialize(_, _, _, _, _, _)
RECURSIVE Pad(_, _, _, _)

\* the result of a scalar's serialize() as a result of the engine
ScalarSerialized(r, v, h) == [ok |-> r.ok, bytes |-> r.bytes, value |-> v, h |-> h]

\* self[i].serialize() for an item of a list
Item_serialize(type, v, h) ==
    IF type.kind = "packet"
    THEN SerdepaPacket_serialize_loop(v, 1, <<>>, h)
    ELSE ScalarSerialized(BaseInt_serialize(type, v), v, h)

\* BaseIterable.serialize: the items 0 .. self.length - 1, in order
BaseIterable_serialize(type, items, n, i, bytes, h) ==
    LET Then(r) ==
            IF r.ok
            THEN BaseIterable_serialize(type, [items EXCEPT ![i] = r.value], n, i + 1,
                                        bytes \o r.bytes, r.h)
            ELSE [ok |-> FALSE, bytes |-> <<>>, value |-> [items EXCEPT ![i] = r.value],
                  h |-> r.h]
    IN IF i > n THEN [ok |-> TRUE, bytes |-> bytes, value |-> items, h |-> h]
       ELSE Then(Item_serialize(type, items[i], h))

\* self += [self._type() for _ in range(dl)]
Pad(type, items, dl, h) ==
    LET Then(r) == Pad(type, Append(items, r.value), dl - 1, r.h)
    IN IF dl <= 0 THEN [value |-> items, h |-> h]
       ELSE Then(TypeCall(type, h))

\* a mutant of Array_serialize: the padding is not popped again
Array_serialize_unpopped(type, items, h) ==
    LET Padded(p) == BaseIterable_serialize(type.type, p.value, type.length, 1, <<>>, p.h)
    IN Padded(Pad(type.type, items, type.length - Len(items), h))

\* Array.serialize: pad to self.length, serialize self.length items, pop the
\* padding again; an exception leaves the padding in place
Array_serialize(type, items, h) ==
    LET Pop(r) ==
            IF r.ok /\ type.length > Len(items)
            THEN [r EXCEPT !.value = SubSeq(r.value, 1, Len(items))]
            ELSE r
        Padded(p) == Pop(BaseIterable_serialize(type.type, p.value, type.length, 1, <<>>, p.h))
    IN Padded(Pad(type.type, items, type.length - Len(items), h))

\* serialize() of a List or an Array
Container_serialize(type, items, h) ==
    IF type.kind = "Array" THEN Array_serialize(type, items, h)
    ELSE BaseIterable_serialize(type.type, items, Len(items), 1, <<>>, h)

\* a mutant of Length_serialize: _type is packed as it is, without the
\* assignment of the length
Length_serialize_stale(type, cell, length, h) ==
    ScalarSerialized(BaseInt_serialize(type.type, h.lt[cell]), Shared, h)

\* Length.serialize(length): self._type.value = length, then _type.serialize()
Length_serialize(type, cell, length, h) ==
    ScalarSerialized(BaseInt_serialize(type.type, length), Shared,
                     [h EXCEPT !.lt[cell] = length])

\* the length property of a field's object: List.length is len(self),
\* Array.length is _length; no other field object has one
HasLength(c, reg, target) ==
    target \in DOMAIN reg /\ Container(FieldType(c, target)).kind \in {"List", "Array"}

LengthOf(c, reg, target, type, h) ==
    IF Container(type).kind = "Array" THEN Container(type).length
    ELSE Len(Items(c, reg, target, type, h))

\* field.serialize(self._field_registry[self._depends[name]].length)
LengthField_serialize(c, reg, name, type, target, h) ==
    IF HasLength(c, reg, target)
    THEN Length_serialize(type, <<c, name>>,
                          LengthOf(c, reg, target, FieldType(c, target), h), h)
    ELSE [ok |-> FALSE, bytes |-> <<>>, value |-> Shared, h |-> h]

\* one round of the loop of SerdepaPacket.serialize (lines 147-153)
Field_serialize(c, reg, name, type, h) ==
    CASE name \in DictKeys(Depends(c)) ->
            LengthField_serialize(c, reg, name, type, DictGet(Depends(c), name), h)
      [] type.kind = "int" ->
            ScalarSerialized(BaseInt_serialize(type, reg[name]), reg[name], h)
      [] type.kind \in {"List", "Array", "ByteString"} ->
            Container_serialize(Container(type), Items(c, reg, name, type, h), h)
      [] type.kind = "packet" ->
            SerdepaPacket_serialize_loop(reg[name], 1, <<>>, h)

\* the registry and cells after a field's serialize or deserialize gave r
Stored(c, reg, name, type, r) ==
    CASE type.kind \in {"List", "Array", "ByteString"} ->
            WithItems(c, reg, name, type, r.h, r.value)
      [] OTHER -> [reg |-> [reg EXCEPT ![name] = r.value], h |-> r.h]

\* the loop of SerdepaPacket.serialize from field i on
SerdepaPacket_serialize_loop(pkt, i, bytes, h) ==
    LET Then(r, w) ==
            IF r.ok
            THEN SerdepaPacket_serialize_loop([pkt EXCEPT !.reg = w.reg], i + 1,
                                              bytes \o r.bytes, w.h)
            ELSE [ok |-> FALSE, bytes |-> <<>>, value |-> [pkt EXCEPT !.reg = w.reg],
                  h |-> w.h]
        Store(f, r) == Then(r, Stored(pkt.cls, pkt.reg, f.key, f.value.type, r))
        Step(f) == Store(f, Field_serialize(pkt.cls, pkt.reg, f.key, f.value.type, h))
    IN IF i > Len(Fields(pkt.cls))
       THEN [ok |-> TRUE, bytes |-> bytes, value |-> pkt, h |-> h]
       ELSE Step(Fields(pkt.cls)[i])

\* a mutant of SerdepaPacket_serialize: the bytes are framed by their number
SerdepaPacket_serialize_prefixed(pkt, h) ==
    LET Framed(r) == [r EXCEPT !.bytes = <<Len(r.bytes)>> \o r.bytes]
    IN Framed(SerdepaPacket_serialize_loop(pkt, 1, <<>>, h))

\* SerdepaPacket.serialize()
SerdepaPacket_serialize(pkt, h) == SerdepaPacket_serialize_loop(pkt, 1, <<>>, h)

-----------------------------------------------------------------------------
(* Sizes.  The operators return [ok, size]; ok is FALSE where the call      *)
(* raises.                                                                  *)

RECURSIVE SerdepaPacket_serialized_size_loop(_, _, _, _)

\* self._type.serialized_size() * self.length of List and Array: called on the
\* item class, which works for a scalar class (a classmethod) and raises
\* TypeError for a packet class (an instance method)
BaseIterable_serialized_size(type, n) ==
    IF type.kind = "int" THEN [ok |-> TRUE, size |-> BaseInt_serialized_size(type) * n]
                         ELSE [ok |-> FALSE, size |-> 0]

\* field.serialized_size() for the field name of a packet
Field_serialized_size(c, reg, name, type, h) ==
    CASE type.kind = "int" -> [ok |-> TRUE, size |-> BaseInt_serialized_size(type)]
      [] type.kind = "Length" -> [ok |-> TRUE, size |-> BaseInt_serialized_size(type.type)]
      [] type.kind \in {"List", "Array", "ByteString"} ->
            BaseIterable_serialized_size(Container(type).type,
                                         LengthOf(c, reg, name, type, h))
      [] type.kind = "packet" ->
            SerdepaPacket_serialized_size_loop(reg[name], 1, 0, h)

\* the loop of SerdepaPacket.serialized_size from field i on
SerdepaPacket_serialized_size_loop(pkt, i, size, h) ==
    LET Then(r) ==
            IF r.ok THEN SerdepaPacket_serialized_size_loop(pkt, i + 1, size + r.size, h)
                    ELSE [ok |-> FALSE, size |-> 0]
        Step(f) == Then(Field_serialized_size(pkt.cls, pkt.reg, f.key, f.value.type, h))
    IN IF i > Len(Fields(pkt.cls)) THEN [ok |-> TRUE, size |-> size]
       ELSE Step(Fields(pkt.cls)[i])

\* SerdepaPacket.serialized_size()
SerdepaPacket_serialized_size(pkt, h) == SerdepaPacket_serialized_size_loop(pkt, 1, 0, h)

RECURSIVE SerdepaPacket_minimal_size_loop(_, _, _)

\* _type.minimal_size() for the type of a field:
\*   scalar class: BaseInt.minimal_size, a classmethod
\*   Length: serialized_size(), the size of its scalar
\*   List: 0
\*   Array: serialized_size(), where _type.serialized_size() is called on the
\*     item class
\*   ByteString: BaseField.minimal_size, which raises NotImplementedError (the
\*     name is found on the class, so __getattr__ never forwards it)
\*   packet class: SerdepaPacket.minimal_size, a classmethod
Type_minimal_size(type) ==
    CASE type.kind = "int" -> [ok |-> TRUE, size |-> BaseInt_serialized_size(type)]
      [] type.kind = "Length" -> [ok |-> TRUE, size |-> BaseInt_serialized_size(type.type)]
      [] type.kind = "List" -> [ok |-> TRUE, size |-> 0]
      [] type.kind = "Array" -> BaseIterable_serialized_size(type.type, type.length)
      [] type.kind = "ByteString" -> [ok |-> FALSE, size |-> 0]
      [] type.kind = "packet" -> SerdepaPacket_minimal_size_loop(Fields(type.cls), 1, 0)

\* the loop of SerdepaPacket.minimal_size over cls._fields from entry i on
SerdepaPacket_minimal_size_loop(fields, i, size) ==
    LET Then(r) ==
            IF r.ok THEN SerdepaPacket_minimal_size_loop(fields, i + 1, size + r.size)
                    ELSE [ok |-> FALSE, size |-> 0]
    IN IF i > Len(fields) THEN [ok |-> TRUE, size |-> size]
       ELSE Then(Type_minimal_size(fields[i].value.type))

\* cls.minimal_size() for a class whose _fields is fields
SerdepaPacket_minimal_size(fields) == SerdepaPacket_minimal_size_loop(fields, 1, 0)

\* self._type().serialized_size() of List.deserialize: the size of a new item
NewItemSize(type, h) ==
    IF type.kind = "int" THEN BaseInt_serialized_size(type)
    ELSE SerdepaPacket_serialized_size(TypeCall(type, h).value, h).size

-----------------------------------------------------------------------------
(* Deserialization.  Every operator returns [ok, pos, value, h]: whether    *)
(* the call returned or raised, the position returned, the object after the *)
(* call and the shared cells after the call.  Positions count from 0.       *)

RECURSIVE SerdepaPacket_deserialize_loop(_, _, _, _, _)
RECURSIVE BaseIterable_deserialize(_, _, _, _, _, _, _)

\* the result of a scalar's deserialize() as a result of the engine; a scalar
\* that raises keeps its value
ScalarDeserialized(r, old, h) ==
    [ok |-> r.ok, pos |-> r.pos, value |-> IF r.ok THEN r.value ELSE old, h |-> h]

\* self[i] = self._type(); pos = self[i].deserialize(value, pos)
Item_deserialize(type, data, pos, h) ==
    LET Made(m) == SerdepaPacket_deserialize_loop(m.value, 1, data, pos, m.h)
    IN IF type.kind = "packet" THEN Made(TypeCall(type, h))
       ELSE ScalarDeserialized(BaseInt_deserialize(type, data, pos), 0, h)

\* BaseIterable.deserialize: the items 0 .. self.length - 1 are replaced
BaseIterable_deserialize(type, items, n, i, data, pos, h) ==
    LET Then(r) ==
            IF r.ok
            THEN BaseIterable_deserialize(type, [items EXCEPT ![i] = r.value], n, i + 1,
                                          data, r.pos, r.h)
            ELSE [ok |-> FALSE, pos |-> pos, value |-> [items EXCEPT ![i] = r.value],
                  h |-> r.h]
    IN IF i > n THEN [ok |-> TRUE, pos |-> pos, value |-> items, h |-> h]
       ELSE Then(Item_deserialize(type, data, pos, h))

\* List.deserialize(value, pos, length) for a length that is not None: the list
\* is cleared, filled with append(0) up to the count, and deserialized; the
\* count is (len(value) - pos) // size for length -1, else range(0, length)
List_deserialize(type, data, pos, length, h) ==
    LET Filled(p) == BaseIterable_deserialize(type.type, p.value, Len(p.value), 1,
                                              data, pos, p.h)
        Count(n) == Filled(Pad(type.type, <<>>, n, h))
    IN IF length = -1 THEN Count((Len(data) - pos) \div NewItemSize(type.type, h))
       ELSE Count(length)

\* Array.deserialize: grown to self.length with new items when shorter, then
\* the first self.length items are replaced
Array_deserialize(type, items, data, pos, h) ==
    LET Grown(p) == BaseIterable_deserialize(type.type, p.value, type.length, 1,
                                             data, pos, p.h)
    IN Grown(Pad(type.type, items, type.length - Len(items), h))

\* the length the engine passes after AttributeError (lines 168-173): _type.value
\* of the first Length field of _depends that names the field, else -1
LengthFor(c, name, h) ==
    LET keys == {k \in 1..Len(Depends(c)) : Depends(c)[k].value = name}
    IN IF keys = {} THEN -1
       ELSE h.lt[<<c, Depends(c)[CHOOSE k \in keys : \A j \in keys : k <= j].key>>]

\* Length.deserialize: the descriptor's _type reads the scalar
Length_deserialize(type, cell, data, pos, h) ==
    LET Then(r) == [ok |-> r.ok, pos |-> r.pos, value |-> Shared,
                    h |-> IF r.ok THEN [h EXCEPT !.lt[cell] = r.value] ELSE h]
    IN Then(BaseInt_deserialize(type.type, data, pos))

\* one round of the loop of SerdepaPacket.deserialize (lines 165-173)
Field_deserialize(c, reg, name, type, data, pos, h) ==
    CASE type.kind = "int" ->
            ScalarDeserialized(BaseInt_deserialize(type, data, pos), reg[name], h)
      [] type.kind = "Length" ->
            Length_deserialize(type, <<c, name>>, data, pos, h)
      [] Container(type).kind = "List" ->
            List_deserialize(Container(type), data, pos, LengthFor(c, name, h), h)
      [] Container(type).kind = "Array" ->
            Array_deserialize(Container(type), Items(c, reg, name, type, h), data, pos, h)
      [] type.kind = "packet" ->
            SerdepaPacket_deserialize_loop(reg[name], 1, data, pos, h)

\* a mutant of IsListOrByteString: a field of any type may be left unread at
\* the end of the data
IsListOrByteString_any(type) == TRUE

\* isinstance(field, List) or isinstance(field, ByteString)
IsListOrByteString(type) == type.kind \in {"List", "ByteString"}

\* the loop of SerdepaPacket.deserialize from field i on
SerdepaPacket_deserialize_loop(pkt, i, data, pos, h) ==
    LET Then(r, w) ==
            IF r.ok /\ r.pos <= Len(data)
            THEN SerdepaPacket_deserialize_loop([pkt EXCEPT !.reg = w.reg], i + 1, data,
                                                r.pos, w.h)
            ELSE [ok |-> FALSE, pos |-> pos, value |-> [pkt EXCEPT !.reg = w.reg],
                  h |-> w.h]
        Store(f, r) == Then(r, Stored(pkt.cls, pkt.reg, f.key, f.value.type, r))
        Step(f) == Store(f, Field_deserialize(pkt.cls, pkt.reg, f.key, f.value.type,
                                              data, pos, h))
        Short(f) ==
            [ok |-> i = Len(Fields(pkt.cls)) /\ IsListOrByteString(f.value.type),
             pos |-> pos, value |-> pkt, h |-> h]
    IN IF i > Len(Fields(pkt.cls)) THEN [ok |-> TRUE, pos |-> pos, value |-> pkt, h |-> h]
       ELSE IF pos >= Len(data) THEN Short(Fields(pkt.cls)[i])
       ELSE Step(Fields(pkt.cls)[i])

\* SerdepaPacket.deserialize(data, pos)
SerdepaPacket_deserialize(pkt, data, pos, h) ==
    SerdepaPacket_deserialize_loop(pkt, 1, data, pos, h)

-----------------------------------------------------------------------------
(* The loops of serialize and deserialize, one round at a time.  A round    *)
(* gives [status, bytes, pos, value, h]: status is "running" when the loop  *)
(* goes on, "returned" when the call returns and "raised" when it raises.   *)

\* the round of the loop of SerdepaPacket.serialize for field i, and the return
\* that follows the last round
SerdepaPacket_serialize_step(pkt, i, bytes, h) ==
    LET Then(r, w) ==
            [status |-> IF ~r.ok THEN "raised"
                        ELSE IF i = Len(Fields(pkt.cls)) THEN "returned" ELSE "running",
             bytes |-> IF r.ok THEN bytes \o r.bytes ELSE <<>>,
             pos |-> 0,
             value |-> [pkt EXCEPT !.reg = w.reg],
             h |-> w.h]
        Store(f, r) == Then(r, Stored(pkt.cls, pkt.reg, f.key, f.value.type, r))
        Step(f) == Store(f, Field_serialize(pkt.cls, pkt.reg, f.key, f.value.type, h))
    IN Step(Fields(pkt.cls)[i])

\* the round of the loop of SerdepaPacket.deserialize for field i, and the
\* return that follows the last round
SerdepaPacket_deserialize_step(pkt, i, data, pos, h) ==
    LET Then(r, w) ==
            [status |-> IF ~(r.ok /\ r.pos <= Len(data)) THEN "raised"
                        ELSE IF i = Len(Fields(pkt.cls)) THEN "returned" ELSE "running",
             bytes |-> <<>>,
             pos |-> IF r.ok THEN r.pos ELSE pos,
             value |-> [pkt EXCEPT !.reg = w.reg],
             h |-> w.h]
        Store(f, r) == Then(r, Stored(pkt.cls, pkt.reg, f.key, f.value.type, r))
        Step(f) == Store(f, Field_deserialize(pkt.cls, pkt.reg, f.key, f.value.type,
                                              data, pos, h))
        Short(f) ==
            [status |-> IF i = Len(Fields(pkt.cls)) /\ IsListOrByteString(f.value.type)
                        THEN "returned" ELSE "raised",
             bytes |-> <<>>, pos |-> pos, value |-> pkt, h |-> h]
    IN IF pos >= Len(data) THEN Short(Fields(pkt.cls)[i])
       ELSE Step(Fields(pkt.cls)[i])

-----------------------------------------------------------------------------
(* The value of a ByteString.  Python integers are unbounded; an integer    *)
(* that may take six bytes is kept as two limbs, hi * 256^3 + lo with       *)
(* 0 <= lo < 256^3.                                                         *)

Wide(hi, lo) == [hi |-> hi, lo |-> lo]

\* v << (8 * i)
ShiftLeft(v, i) ==
    IF i >= 3 THEN Wide(v * Pow256(i - 3), 0)
    ELSE Wide((v * Pow256(i)) \div Pow256(3), (v * Pow256(i)) % Pow256(3))

\* x + y
WideAdd(x, y) ==
    Wide(x.hi + y.hi + (x.lo + y.lo) \div Pow256(3), (x.lo + y.lo) % Pow256(3))

\* reduce(lambda x, v: x + (v[1] << (8*v[0])), enumerate(seq), x) from index i on
RECURSIVE ByteString_reduce(_, _, _)
ByteString_reduce(seq, i, x) ==
    IF i >= Len(seq) THEN x
    ELSE ByteString_reduce(seq, i + 1, WideAdd(x, ShiftLeft(seq[i + 1], i)))

\* a mutant of ByteString_value: the bytes are not reversed, the first stored
\* byte is the least significant
ByteString_value_unreversed(items) == ByteString_reduce(items, 0, Wide(0, 0))

\* ByteString._value: the reduce over enumerate(reversed(list(_data_container)))
ByteString_value(items) == ByteString_reduce(Reverse(items), 0, Wide(0, 0))

-----------------------------------------------------------------------------
(* The inputs of the actions.                                              *)

Instances == {1, 2}

NoCells == [lt |-> [x \in Cells("Length") |-> 0], dc |-> [x \in Cells("ByteString") |-> <<>>]]

\* Point(x=x, y=y), Point3(x=x, y=y, z=z), Inner(a=a, tail=tail)
PointOf(x, y) == [cls |-> "Point", reg |-> [x |-> x, y |-> y]]

Point3Of(x, y, z) == [cls |-> "Point3", reg |-> [x |-> x, y |-> y, z |-> z]]

InnerOf(a, tail) == [cls |-> "Inner", reg |-> [a |-> a, tail |-> tail]]

\* Stamp(h=h, v=v)
StampOf(h, v) == [cls |-> "Stamp", reg |-> [h |-> h, v |-> v]]

Kw(name, value) == <<[key |-> name, value |-> value]>>

\* the keyword arguments packets are constructed with, besides none
KwargsFor(c) ==
    CASE c = "OnePacket" -> <<Kw("header", 2) \o Kw("data", <<7>>), Kw("tail", <<5, 6>>)>>
      [] c = "DefaultValuePacket" -> <<Kw("header", 2), Kw("data", <<>>) \o Kw("tail", <<>>)>>
      [] c = "AnotherPacket" -> <<Kw("origin", PointOf(1, 2)), Kw("data", <<PointOf(3, 4)>>)>>
      [] c = "ArrayPacket" -> <<Kw("data", <<9>>), Kw("data", <<1, 2, 3>>)>>
      [] c = "FixLenPacket" -> <<Kw("tail", <<5, 232>>)>>
      [] c = "LenObjLenPacket" -> <<Kw("tail", <<5>>)>>
      [] c = "Wrapper" -> <<Kw("inner", InnerOf(1, <<2>>)), Kw("crc", 3)>>
      [] c = "SignedLen" -> <<Kw("data", <<1>>)>>
      [] c = "StructArrayPacket" ->
            <<Kw("data", <<StampOf(7, 8)>>),
              Kw("data", <<StampOf(1, 2), StampOf(3, 4), StampOf(5, 6)>>)>>
      [] c = "VarLenPacket" -> <<Kw("tail", <<5>>)>>
      [] c = "FixLen6Packet" -> <<>>

\* the k-th choice of keyword arguments, the 0-th being none
Kwargs(c, k) == IF k = 0 THEN <<>> ELSE KwargsFor(c)[k]

\* the values assigned to scalar fields, one of them out of the range of a byte
ScalarValues == {2, 256}

\* the values appended to a list of the given item type
ItemValues(type) ==
    IF type.kind # "packet" THEN {7}
    ELSE IF type.cls = "Stamp" THEN {StampOf(7, 8)}
    ELSE {PointOf(5, 6), Point3Of(7, 8, 9)}

\* the packets assigned to a nested field
NestedValues == {PointOf(1, 2), Point3Of(3, 4, 5), InnerOf(6, <<>>)}

Prefixes(b) == {SubSeq(b, 1, k) : k \in 0..Len(b)}

\* the byte strings handed to deserialize: messages of the class, cut at
\* every length
Buffers(c) ==
    CASE c = "OnePacket" -> Prefixes(<<1, 2, 3, 4, 5, 0, 6>>)
      [] c = "DefaultValuePacket" -> Prefixes(<<1, 0, 0, 48, 57, 4, 1, 2, 3, 4, 5, 6>>)
      [] c = "AnotherPacket" -> Prefixes(<<208, 255, 1, 0, 1, 2, 2, 0>>)
      [] c = "ArrayPacket" -> Prefixes(<<2, 8, 9, 7>>) \cup {<<5, 8, 9, 7>>}
      [] c = "FixLenPacket" -> Prefixes(<<3, 5, 232>>)
      [] c = "LenObjLenPacket" -> Prefixes(<<3, 2, 232, 240>>) \cup {<<3, 5, 232>>}
      [] c = "Wrapper" -> Prefixes(<<1, 2, 3>>)
      [] c = "SignedLen" -> Prefixes(<<1, 5, 9>>) \cup {<<255, 1, 2>>, <<254, 9>>}
      [] c = "StructArrayPacket" -> Prefixes(<<9, 1, 2, 3, 4>>)
      [] c = "VarLenPacket" -> Prefixes(<<241, 14, 50, 53>>)
      [] c = "FixLen6Packet" -> Prefixes(<<3, 5, 232, 240, 35, 152, 169>>)

-----------------------------------------------------------------------------
(* The state machine of two instances of one class.  out is the outcome of  *)
(* the last call: the instance, the field and value it was given, whether   *)
(* it returned (ok) or raised, and what it returned.                        *)

Cells_now == [lt |-> lengthType, dc |-> dataContainer]

NoOut == [op |-> "none", i |-> 0, field |-> "", value |-> NoPacket, ok |-> TRUE,
          data |-> <<>>, pos |-> 0, bytes |-> <<>>]

NoClass == [fields |-> <<>>, depends |-> <<>>, error |-> "undefined"]

\* what a call gave: whether it returned, what it returned (the bytes of
\* serialize, the position of deserialize) and the field values of the
\* instance when it returned
NoResult == [ok |-> TRUE, ret |-> <<>>, values |-> <<>>]

\* a thread that runs no call
NoThread == [op |-> "idle", status |-> "idle", pc |-> 0, data |-> <<>>, pos |-> 0,
             bytes |-> <<>>, alone |-> NoResult, after |-> NoResult, result |-> NoResult]

Init ==
    /\ cls \in {c \in TopClasses : ClassTable[c].error = NoError}
    /\ inst = [i \in Instances |-> NoPacket]
    /\ lengthType = NoCells.lt
    /\ dataContainer = NoCells.dc
    /\ wire = <<>>
    /\ sender = 0
    /\ out = NoOut
    /\ fresh = [i \in Instances |-> FALSE]
    /\ nops = 0
    /\ candidate = ClassFields_(cls)
    /\ defined = ClassTable[cls]
    /\ thread = [t \in Instances |-> NoThread]

Constructed(i) == inst[i] # NoPacket

\* inst[i] = cls(**Kwargs(cls, k))
Construct(i, k) ==
    /\ nops < MaxOps
    /\ LET Then(r) ==
            /\ inst' = [inst EXCEPT ![i] = r.value]
            /\ lengthType' = r.h.lt
            /\ dataContainer' = r.h.dc
       IN Then(SerdepaPacket_new(cls, Kwargs(cls, k), Cells_now))
    /\ fresh' = [fresh EXCEPT ![i] = k = 0]
    /\ out' = [NoOut EXCEPT !.op = "init", !.i = i, !.pos = k]
    /\ nops' = nops + 1
    /\ UNCHANGED <<cls, wire, sender, candidate, defined, thread>>

\* inst[i].name = v for a scalar field: the property setter of add_property
\* and BaseInt.value
SetScalar(i, name, v) ==
    /\ nops < MaxOps
    /\ Constructed(i)
    /\ inst' = [inst EXCEPT ![i].reg[name] = v]
    /\ fresh' = [fresh EXCEPT ![i] = FALSE]
    /\ out' = [NoOut EXCEPT !.op = "set", !.i = i, !.field = name]
    /\ nops' = nops + 1
    /\ UNCHANGED <<cls, lengthType, dataContainer, wire, sender, candidate, defined, thread>>

\* the setter add_property gives a nested field accepts v when
\* isinstance(v, self._fields[attr][0])
NestedSetter(c, name, v) == IsSubclass(v.cls, FieldType(c, name).cls)

\* inst[i].name = v for a nested field
AssignNested(i, name, v) ==
    /\ nops < MaxOps
    /\ Constructed(i)
    /\ LET Then(accepted) ==
            /\ inst' = IF accepted THEN [inst EXCEPT ![i].reg[name] = v] ELSE inst
            /\ out' = [NoOut EXCEPT !.op = "assign", !.i = i, !.field = name,
                                    !.value = v, !.ok = accepted]
       IN Then(NestedSetter(cls, name, v))
    /\ fresh' = [fresh EXCEPT ![i] = FALSE]
    /\ nops' = nops + 1
    /\ UNCHANGED <<cls, lengthType, dataContainer, wire, sender, candidate, defined, thread>>

\* inst[i].name.append(v): BaseIterable.append, reached through
\* ByteString.__getattr__ for a ByteString
AppendItem(i, name, v) ==
    /\ nops < MaxOps
    /\ Constructed(i)
    /\ LET Then(w) ==
            /\ inst' = [inst EXCEPT ![i].reg = w.reg]
            /\ lengthType' = w.h.lt
            /\ dataContainer' = w.h.dc
           Made(type, items, r) ==
            Then(WithItems(cls, inst[i].reg, name, type, r.h, Append(items, r.value)))
           Of(type, items) ==
            /\ Len(items) < MaxLen
            /\ Made(type, items, NewItem(Container(type).type, v, Cells_now))
           On(type) == Of(type, Items(cls, inst[i].reg, name, type, Cells_now))
       IN On(FieldType(cls, name))
    /\ fresh' = [fresh EXCEPT ![i] = FALSE]
    /\ out' = [NoOut EXCEPT !.op = "append", !.i = i, !.field = name]
    /\ nops' = nops + 1
    /\ UNCHANGED <<cls, wire, sender, candidate, defined, thread>>

\* inst[i].name.pop(): list.pop of a List, an Array or a ByteString's container
PopItem(i, name) ==
    /\ nops < MaxOps
    /\ Constructed(i)
    /\ LET Then(w) ==
            /\ inst' = [inst EXCEPT ![i].reg = w.reg]
            /\ dataContainer' = w.h.dc
           Of(type, items) ==
            /\ items # <<>>
            /\ Then(WithItems(cls, inst[i].reg, name, type, Cells_now,
                              SubSeq(items, 1, Len(items) - 1)))
           On(type) == Of(type, Items(cls, inst[i].reg, name, type, Cells_now))
       IN On(FieldType(cls, name))
    /\ fresh' = [fresh EXCEPT ![i] = FALSE]
    /\ out' = [NoOut EXCEPT !.op = "pop", !.i = i, !.field = name]
    /\ nops' = nops + 1
    /\ UNCHANGED <<cls, lengthType, wire, sender, candidate, defined, thread>>

\* inst[i].serialize()
Serialize(i) ==
    /\ nops < MaxOps
    /\ Constructed(i)
    /\ LET Then(r) ==
            /\ inst' = [inst EXCEPT ![i] = r.value]
            /\ lengthType' = r.h.lt
            /\ dataContainer' = r.h.dc
            /\ wire' = IF r.ok THEN r.bytes ELSE wire
            /\ sender' = IF r.ok THEN i ELSE sender
            /\ out' = [NoOut EXCEPT !.op = "serialize", !.i = i, !.ok = r.ok,
                                    !.bytes = r.bytes]
       IN Then(SerdepaPacket_serialize(inst[i], Cells_now))
    /\ fresh' = [fresh EXCEPT ![i] = FALSE]
    /\ nops' = nops + 1
    /\ UNCHANGED <<cls, candidate, defined, thread>>

\* inst[i].deserialize(data), pos = 0
Deserialize(i, data) ==
    /\ nops < MaxOps
    /\ Constructed(i)
    /\ LET Then(r) ==
            /\ inst' = [inst EXCEPT ![i] = r.value]
            /\ lengthType' = r.h.lt
            /\ dataContainer' = r.h.dc
            /\ out' = [NoOut EXCEPT !.op = "deserialize", !.i = i, !.ok = r.ok,
                                    !.data = data, !.pos = r.pos]
       IN Then(SerdepaPacket_deserialize(inst[i], data, 0, Cells_now))
    /\ fresh' = [fresh EXCEPT ![i] = FALSE]
    /\ nops' = nops + 1
    /\ UNCHANGED <<cls, wire, sender, candidate, defined, thread>>

\* inst[i].serialized_size()
SerializedSize(i) ==
    /\ nops < MaxOps
    /\ Constructed(i)
    /\ LET Then(r) ==
            out' = [NoOut EXCEPT !.op = "serialized_size", !.i = i, !.ok = r.ok,
                                 !.pos = r.size]
       IN Then(SerdepaPacket_serialized_size(inst[i], Cells_now))
    /\ fresh' = [fresh EXCEPT ![i] = FALSE]
    /\ nops' = nops + 1
    /\ UNCHANGED <<cls, inst, lengthType, dataContainer, wire, sender, candidate, defined, thread>>

\* inst[i].name._value of a ByteString field, as read by ByteString.__eq__,
\* __repr__ and __str__
Value(i, name) ==
    /\ nops < MaxOps
    /\ Constructed(i)
    /\ LET Then(v) ==
            out' = [NoOut EXCEPT !.op = "value", !.i = i, !.field = name, !.value = v]
       IN Then(ByteString_value(Items(cls, inst[i].reg, name, FieldType(cls, name),
                                      Cells_now)))
    /\ fresh' = [fresh EXCEPT ![i] = FALSE]
    /\ nops' = nops + 1
    /\ UNCHANGED <<cls, inst, lengthType, dataContainer, wire, sender, candidate, defined, thread>>

\* cls.minimal_size(), called on a class that was accepted and has no
\* instance yet
MinimalSize ==
    /\ defined.error = NoError
    /\ out.op \in {"none", "class"}
    /\ \A i \in Instances : ~Constructed(i)
    /\ LET Then(r) == out' = [NoOut EXCEPT !.op = "minimal_size", !.ok = r.ok, !.pos = r.size]
       IN Then(SerdepaPacket_minimal_size(defined.fields))
    /\ UNCHANGED <<cls, inst, lengthType, dataContainer, wire, sender, fresh, nops, candidate,
                   defined, thread>>

Next ==
    \/ MinimalSize
    \/ \E i \in Instances, k \in 0..Len(KwargsFor(cls)) : Construct(i, k)
    \/ \E i \in Instances, name \in FieldsOfKind(cls, {"int"}), v \in ScalarValues :
            SetScalar(i, name, v)
    \/ \E i \in Instances, name \in FieldsOfKind(cls, {"packet"}), v \in NestedValues :
            AssignNested(i, name, v)
    \/ \E i \in Instances, name \in FieldsOfKind(cls, {"List", "Array", "ByteString"}) :
            \E v \in ItemValues(Container(FieldType(cls, name)).type) : AppendItem(i, name, v)
    \/ \E i \in Instances, name \in FieldsOfKind(cls, {"List", "Array", "ByteString"}) :
            PopItem(i, name)
    \/ \E i \in Instances : Serialize(i)
    \/ \E i \in Instances, data \in Buffers(cls) \cup {wire} : Deserialize(i, data)
    \/ \E i \in Instances : SerializedSize(i)
    \/ \E i \in Instances, name \in FieldsOfKind(cls, {"ByteString"}) : Value(i, name)

Spec == Init /\ [][Next]_vars

-----------------------------------------------------------------------------
(* The state machine of a class statement: a _fields_ list is written entry *)
(* by entry and the class is then defined, which runs the metaclass.        *)

\* the entries a _fields_ list is written from
Entries ==
    << Field2("a", nx_uint8),
       Field2("b", nx_uint8),
       Field2("c", nx_uint8),
       Field2("a", Length(nx_uint8, "b")),
       Field2("c", Length(nx_uint8, "b")),
       Field2("a", List(nx_uint8)),
       Field2("b", List(nx_uint8)),
       Field2("b", ByteStringVar),
       Field2("a", ByteString(2)),
       Field2("b", ByteString(2)),
       Field2("a", Array(nx_uint8, 2)),
       Field2("c", Packet("Point")),
       Field3("a", nx_uint8, 1),
       Field3("b", List(nx_uint8), <<1, 2>>),
       Field3("a", Length(nx_uint8, "b"), 1),
       Field1("a") >>

DefInit ==
    /\ cls = "Candidate"
    /\ inst = [i \in Instances |-> NoPacket]
    /\ lengthType = NoCells.lt
    /\ dataContainer = NoCells.dc
    /\ wire = <<>>
    /\ sender = 0
    /\ out = NoOut
    /\ fresh = [i \in Instances |-> FALSE]
    /\ nops = 0
    /\ candidate = <<>>
    /\ defined = NoClass
    /\ thread = [t \in Instances |-> NoThread]

\* one more entry is written into the _fields_ list
AddField(k) ==
    /\ defined = NoClass
    /\ Len(candidate) < MaxFields
    /\ candidate' = Append(candidate, Entries[k])
    /\ UNCHANGED <<cls, inst, lengthType, dataContainer, wire, sender, out, fresh, nops,
                   defined, thread>>

\* class Candidate(SerdepaPacket): _fields_ = candidate
DefineClass ==
    /\ defined = NoClass
    /\ defined' = SuperSerdepaPacket_init(candidate)
    /\ out' = [NoOut EXCEPT !.op = "class", !.ok = defined'.error = NoError]
    /\ UNCHANGED <<cls, inst, lengthType, dataContainer, wire, sender, fresh, nops,
                   candidate, thread>>

DefNext ==
    \/ \E k \in 1..Len(Entries) : AddField(k)
    \/ DefineClass
    \/ MinimalSize

SpecDef == DefInit /\ [][DefNext]_vars

-----------------------------------------------------------------------------
(* Measures of a packet on the wire, used to state the properties.          *)

RECURSIVE PacketWireSize(_, _, _)
RECURSIVE ConcatFields(_, _, _)

\* the number of items of a list field on the wire: the value decoded for its
\* Length field when it has one (none for a negative value, the live number
\* for -1, which stands for "the rest"), else the number of items it holds
WireCount(c, reg, name, type, h) ==
    IF name \in DictValues(Depends(c)) /\ LengthFor(c, name, h) # -1
    THEN Max(0, LengthFor(c, name, h))
    ELSE Len(Items(c, reg, name, type, h))

\* the number of bytes a field takes on the wire
FieldWireSize(c, reg, name, type, h) ==
    CASE type.kind = "int" -> BaseInt_serialized_size(type)
      [] type.kind = "Length" -> BaseInt_serialized_size(type.type)
      [] type.kind \in {"List", "ByteString"} /\ Container(type).kind = "List" ->
            NewItemSize(Container(type).type, h) * WireCount(c, reg, name, type, h)
      [] type.kind \in {"Array", "ByteString"} /\ Container(type).kind = "Array" ->
            NewItemSize(Container(type).type, h) * Container(type).length
      [] type.kind = "packet" ->
            PacketWireSize(reg[name], Len(Fields(reg[name].cls)), h)

\* the number of bytes the first k fields of a packet take on the wire
PacketWireSize(pkt, k, h) ==
    IF k = 0 THEN 0
    ELSE PacketWireSize(pkt, k - 1, h)
         + FieldWireSize(pkt.cls, pkt.reg, Fields(pkt.cls)[k].key,
                         Fields(pkt.cls)[k].value.type, h)

\* the bytes of the first k fields of a packet, each serialized on its own
ConcatFields(pkt, k, h) ==
    IF k = 0 THEN <<>>
    ELSE ConcatFields(pkt, k - 1, h)
         \o Field_serialize(pkt.cls, pkt.reg, Fields(pkt.cls)[k].key,
                            Fields(pkt.cls)[k].value.type, h).bytes

\* the positions of the Length fields of a class
LengthIndices(c) == {k \in 1..Len(Fields(c)) : Fields(c)[k].value.type.kind = "Length"}

\* the field a Length field at position k is bound to
TargetOf(c, k) == DictGet(Depends(c), Fields(c)[k].key)

\* the integer found in bytes at the place of the Length field at position k
LengthWritten(pkt, k, bytes, h) ==
    Unpack(Fields(pkt.cls)[k].value.type.type,
           Slice(bytes, Len(ConcatFields(pkt, k - 1, h)),
                 BaseInt_serialized_size(Fields(pkt.cls)[k].value.type.type)))

\* the number of items a field holds
ElementCount(pkt, name, h) ==
    Len(Items(pkt.cls, pkt.reg, name, FieldType(pkt.cls, name), h))

\* the last field of the class and whether it is a Variable List
LastField(c) == Fields(c)[Len(Fields(c))]

TrailingList(c) == LastField(c).value.type.kind = "List"

\* the number of leading fields that are not in trailing position: all but a
\* last field that is a list or a byte sequence
NonTrailing(c) ==
    IF LastField(c).value.type.kind \in {"List", "ByteString"} THEN Len(Fields(c)) - 1
    ELSE Len(Fields(c))

\* the bytes of the leading scalars of a class, needed by every message
RECURSIVE LeadingSize(_, _)
LeadingSize(c, k) ==
    IF k > Len(Fields(c)) \/ Fields(c)[k].value.type.kind \notin {"int", "Length"} THEN 0
    ELSE FieldWireSize(c, <<>>, Fields(c)[k].key, Fields(c)[k].value.type, NoCells)
         + LeadingSize(c, k + 1)

\* what a field holds, as read through the packet
FieldValue(pkt, name, type, h) ==
    CASE type.kind \in {"List", "Array", "ByteString"} -> Items(pkt.cls, pkt.reg, name, type, h)
      [] type.kind = "Length" -> ElementCount(pkt, DictGet(Depends(pkt.cls), name), h)
      [] OTHER -> pkt.reg[name]

\* everything that can be read from a packet: its field values and its bytes
Observed(pkt, h) ==
    [values |-> [k \in 1..Len(Fields(pkt.cls)) |->
                    FieldValue(pkt, Fields(pkt.cls)[k].key, Fields(pkt.cls)[k].value.type, h)],
     bytes |-> SerdepaPacket_serialize(pkt, h).bytes]

\* the zero or empty value of a field type
Zero(type) ==
    CASE type.kind = "int" -> 0
      [] type.kind \in {"List", "Array", "ByteString"} -> <<>>
      [] type.kind = "packet" -> SerdepaPacket_new(type.cls, <<>>, NoCells).value

\* what a field is to hold after construction with the keyword arguments
Expected(f, kwargs) ==
    IF f.key \in DictKeys(kwargs) THEN DictGet(kwargs, f.key)
    ELSE IF f.value.default # <<>> THEN f.value.default[1]
    ELSE Zero(f.value.type)

\* whether a _fields_ list has two entries of one name
HasDuplicate(fields_) ==
    \E i, j \in 1..Len(fields_) : i < j /\ fields_[i].name = fields_[j].name

\* a _fields_ list with no other defect than, possibly, the place of an
\* unbounded field: entries are 2- or 3-tuples, no Length has a default
WellFormed(fields_) ==
    \A i \in 1..Len(fields_) :
        /\ fields_[i].len \in {2, 3}
        /\ ~(fields_[i].len = 3 /\ fields_[i].type.kind = "Length")

\* some Variable List or unbounded Byte Sequence is neither the last field nor
\* the target named by a Length field of the list
Unplaced(fields_) ==
    \E i \in 1..Len(fields_) :
        /\ \/ fields_[i].type.kind = "List"
           \/ fields_[i].type.kind = "ByteString" /\ fields_[i].type.container.kind = "List"
        /\ i # Len(fields_)
        /\ ~\E j \in 1..Len(fields_) :
                fields_[j].type.kind = "Length" /\ fields_[j].type.field = fields_[i].name

\* the byte width the schema fixes for a field type: that of a scalar, of the
\* scalar of a Length field, of the configured number of items of a Fixed
\* Array or fixed-length Byte Sequence, of the fields of a nested structure;
\* nothing for a Variable List or an unbounded Byte Sequence
RECURSIVE FixedWidth(_)
FixedWidth(type) ==
    LET SumOf(fields) ==
            LET RECURSIVE Sum(_)
                Sum(k) == IF k = 0 THEN 0
                          ELSE Sum(k - 1) + FixedWidth(fields[k].value.type)
            IN Sum(Len(fields))
    IN CASE type.kind = "int" -> type.bits \div 8
         [] type.kind = "Length" -> type.type.bits \div 8
         [] type.kind = "List" -> 0
         [] type.kind = "Array" -> type.length * FixedWidth(type.type)
         [] type.kind = "ByteString" ->
                IF type.container.kind = "Array" THEN type.container.length ELSE 0
         [] type.kind = "packet" -> SumOf(Fields(type.cls))

\* the sum of the fixed widths of the fields of a schema
RECURSIVE SchemaWidth(_, _)
SchemaWidth(fields, k) ==
    IF k = 0 THEN 0 ELSE SchemaWidth(fields, k - 1) + FixedWidth(fields[k].value.type)

\* the integer whose big-endian digits in base 256 are the bytes, the first
\* byte the most significant, as two limbs
Positional(bytes) ==
    Wide(BigEndianValue(SubSeq(bytes, 1, Len(bytes) - 3)),
         BigEndianValue(SubSeq(bytes, Max(1, Len(bytes) - 2), Len(bytes))))

\* the positions of the Fixed Arrays and fixed-length Byte Sequences of a class
ArrayIndices(c) ==
    {k \in 1..Len(Fields(c)) : Container(Fields(c)[k].value.type).kind = "Array"}

\* the bytes of the items, each serialized on its own, one after the other
RECURSIVE ItemsBytes(_, _, _)
ItemsBytes(type, items, h) ==
    IF items = <<>> THEN <<>>
    ELSE ItemsBytes(type, SubSeq(items, 1, Len(items) - 1), h)
         \o Item_serialize(type, items[Len(items)], h).bytes

\* n newly constructed items of the type
NewItems(type, n, h) == [j \in 1..n |-> TypeCall(type, h).value]

\* the bytes a serialize call gave for the field at position k, when the field
\* is len bytes wide
FieldBytes(pkt, k, bytes, len, h) == Slice(bytes, Len(ConcatFields(pkt, k - 1, h)), len)

\* the integer the bytes of data hold at the place of the Length field at
\* position k of a packet that was deserialized from data
LengthDecoded(pkt, k, data, h) ==
    Unpack(Fields(pkt.cls)[k].value.type.type,
           Slice(data, PacketWireSize(pkt, k - 1, h),
                 BaseInt_serialized_size(Fields(pkt.cls)[k].value.type.type)))

\* whether the field is a Variable List or an unbounded Byte Sequence
Unbounded(type) == Container(type).kind = "List"

-----------------------------------------------------------------------------
(* The state machine of two threads.  Thread t runs one call, serialize or  *)
(* deserialize, on its own instance inst[t]; the two calls start together   *)
(* and their loops advance one field at a time in any order.                *)

\* the data a thread deserializes: the messages of the class that a new
\* instance deserializes without error
ThreadBuffers(c) ==
    {b \in Buffers(c) :
        SerdepaPacket_deserialize(SerdepaPacket_new(c, <<>>, NoCells).value, b, 0, NoCells).ok}

\* the calls a thread may run
Calls(c) ==
    {[op |-> "serialize", data |-> <<>>]}
    \cup {[op |-> "deserialize", data |-> b] : b \in ThreadBuffers(c)}

\* what a call gave when it ended: the field values are read as it returns
Result(ok, ret, pkt, h) ==
    [ok |-> ok,
     ret |-> IF ok THEN ret ELSE <<>>,
     values |-> IF ok
                THEN [k \in 1..Len(Fields(pkt.cls)) |->
                        FieldValue(pkt, Fields(pkt.cls)[k].key,
                                   Fields(pkt.cls)[k].value.type, h)]
                ELSE <<>>]

\* what the call gives when it runs from the present state with no other
\* thread running
Alone(pkt, call, h) ==
    LET Serialized(r) == Result(r.ok, r.bytes, r.value, r.h)
        Deserialized(r) == Result(r.ok, <<r.pos>>, r.value, r.h)
    IN IF call.op = "serialize" THEN Serialized(SerdepaPacket_serialize(pkt, h))
       ELSE Deserialized(SerdepaPacket_deserialize(pkt, call.data, 0, h))

\* the shared cells after the call has run from the present state with no
\* other thread running
CellsAfter(pkt, call, h) ==
    IF call.op = "serialize" THEN SerdepaPacket_serialize(pkt, h).h
    ELSE SerdepaPacket_deserialize(pkt, call.data, 0, h).h

\* the other of the two threads
Other(t) == CHOOSE u \in Instances : u # t

Idle == \A t \in Instances : thread[t].status = "idle"

\* inst[i] = cls(**Kwargs(cls, k)): each thread's instance is constructed once,
\* before the threads start
ThreadConstruct(i, k) == Idle /\ ~Constructed(i) /\ Construct(i, k)

\* both threads enter their call: thread t runs calls[t] on inst[t]
StartThreads(calls) ==
    /\ Idle
    /\ \A t \in Instances : Constructed(t)
    /\ thread' = [t \in Instances |->
                    [op |-> calls[t].op, status |-> "running", pc |-> 1,
                     data |-> calls[t].data, pos |-> 0, bytes |-> <<>>,
                     alone |-> Alone(inst[t], calls[t], Cells_now),
                     after |-> Alone(inst[t], calls[t],
                                     CellsAfter(inst[Other(t)], calls[Other(t)], Cells_now)),
                     result |-> NoResult]]
    /\ UNCHANGED <<cls, inst, lengthType, dataContainer, wire, sender, out, fresh, nops,
                   candidate, defined>>

\* thread t runs the round of its loop for the next field of inst[t]
ThreadStep(t) ==
    /\ thread[t].status = "running"
    /\ LET Then(r) ==
            /\ inst' = [inst EXCEPT ![t] = r.value]
            /\ lengthType' = r.h.lt
            /\ dataContainer' = r.h.dc
            /\ thread' = [thread EXCEPT
                            ![t].status = r.status,
                            ![t].pc = @ + 1,
                            ![t].pos = r.pos,
                            ![t].bytes = r.bytes,
                            ![t].result =
                                IF r.status = "running" THEN NoResult
                                ELSE Result(r.status = "returned",
                                            IF thread[t].op = "serialize" THEN r.bytes
                                            ELSE <<r.pos>>,
                                            r.value, r.h)]
       IN IF thread[t].op = "serialize"
          THEN Then(SerdepaPacket_serialize_step(inst[t], thread[t].pc, thread[t].bytes,
                                                 Cells_now))
          ELSE Then(SerdepaPacket_deserialize_step(inst[t], thread[t].pc, thread[t].data,
                                                   thread[t].pos, Cells_now))
    /\ UNCHANGED <<cls, wire, sender, out, fresh, nops, candidate, defined>>

ThreadNext ==
    \/ \E i \in Instances, k \in 0..Len(KwargsFor(cls)) : ThreadConstruct(i, k)
    \/ Idle /\ \E c1, c2 \in Calls(cls) : StartThreads(<<c1, c2>>)
    \/ \E t \in Instances : ThreadStep(t)

SpecThreads == Init /\ [][ThreadNext]_vars

-----------------------------------------------------------------------------
(* The properties.                                                          *)

Cells_next == [lt |-> lengthType', dc |-> dataContainer']

\* C1: round trip.  When the bytes one packet serialized to are deserialized
\* from offset 0 into a newly constructed instance of the class, the call
\* succeeds and the instance serializes to the same bytes.
C1_RoundTrip ==
    [][(out'.op = "deserialize" /\ fresh[out'.i] /\ sender # 0 /\ out'.data = wire)
        => /\ out'.ok
           /\ SerdepaPacket_serialize(inst'[out'.i], Cells_next).ok
           /\ SerdepaPacket_serialize(inst'[out'.i], Cells_next).bytes = wire]_vars

\* C2: wire format.  The bytes serialize() returns are the bytes of the fields,
\* each serialized on its own, in the order of the schema with nothing before,
\* between or after them; a Length field takes the width of its scalar; the
\* packet header=1, timestamp=12345, data=[1,2,3,4], tail=[5,6] gives
\* 01 00003039 04 01020304 0506.
C2_WireFormat ==
    (out.op = "serialize" /\ out.ok)
    => /\ out.bytes = ConcatFields(inst[out.i], Len(Fields(cls)), Cells_now)
       /\ \A k \in LengthIndices(cls) :
            Len(ConcatFields(inst[out.i], k, Cells_now))
              = Len(ConcatFields(inst[out.i], k - 1, Cells_now))
                + BaseInt_serialized_size(Fields(cls)[k].value.type.type)
       /\ (/\ cls = "DefaultValuePacket"
           /\ inst[out.i].reg = [header |-> 1, timestamp |-> 12345, length |-> Shared,
                                 data |-> <<1, 2, 3, 4>>, tail |-> <<5, 6>>])
          => out.bytes = <<1, 0, 0, 48, 57, 4, 1, 2, 3, 4, 5, 6>>

\* C2 witness: the packet of the example has been serialized to its bytes
C2_Witness ==
    /\ out.op = "serialize" /\ out.ok
    /\ cls = "DefaultValuePacket"
    /\ inst[out.i].reg["data"] = <<1, 2, 3, 4>>
    /\ inst[out.i].reg["tail"] = <<5, 6>>
    /\ out.bytes = <<1, 0, 0, 48, 57, 4, 1, 2, 3, 4, 5, 6>>

\* C3 as stated: the value a Length field writes during serialize is the number
\* of items its target holds at that moment, for a list, an array and a byte
\* sequence alike.
C3_LiveCount ==
    (out.op = "serialize" /\ out.ok)
    => \A k \in LengthIndices(cls) :
            LengthWritten(inst[out.i], k, out.bytes, Cells_now)
              = ElementCount(inst[out.i], TargetOf(cls, k), Cells_now)

\* C3 amended: the value a Length field writes during serialize is the length
\* of its target at that moment, which is the number of items held by a
\* Variable List or an unbounded Byte Sequence and the configured length of a
\* Fixed Array or a fixed-length Byte Sequence; never a count left by
\* construction or by an earlier deserialize.
C3_TargetLength ==
    (out.op = "serialize" /\ out.ok)
    => \A k \in LengthIndices(cls) :
            LengthWritten(inst[out.i], k, out.bytes, Cells_now)
              = IF Container(FieldType(cls, TargetOf(cls, k))).kind = "Array"
                THEN Container(FieldType(cls, TargetOf(cls, k))).length
                ELSE ElementCount(inst[out.i], TargetOf(cls, k), Cells_now)

\* C3 witness: a list that got a second item after construction was
\* serialized, and the Length field wrote 2
C3_Witness ==
    /\ out.op = "serialize" /\ out.ok
    /\ cls = "OnePacket"
    /\ Len(inst[out.i].reg["data"]) = 2
    /\ lengthType[<<"OnePacket", "length">>] = 2
    /\ LengthWritten(inst[out.i], 2, out.bytes, Cells_now) = 2

\* C4: empty tail.  Deserializing data that end exactly where the trailing
\* Variable List of the schema begins succeeds and leaves that list without
\* items, whatever the instance held before.
C4_EmptyTail ==
    (/\ out.op = "deserialize"
     /\ TrailingList(cls)
     /\ PacketWireSize(inst[out.i], Len(Fields(cls)) - 1, Cells_now) = Len(out.data))
    => /\ out.ok
       /\ inst[out.i].reg[LastField(cls).key] = <<>>

\* C5: short data.  A deserialize that succeeds has stayed inside the data and
\* the data hold every field that is not in trailing position, at the width
\* the schema and the decoded counts give it; data shorter than the leading
\* scalars of the schema never deserialize.
C5_ShortData ==
    (out.op = "deserialize")
    => /\ out.ok => /\ out.pos <= Len(out.data)
                    /\ PacketWireSize(inst[out.i], NonTrailing(cls), Cells_now)
                         <= Len(out.data)
       /\ Len(out.data) < LeadingSize(cls, 1) => ~out.ok

\* C5 witness: data that stop before the last scalar of a schema were refused
C5_Witness ==
    /\ out.op = "deserialize" /\ ~out.ok
    /\ cls = "ArrayPacket"
    /\ out.data = <<2, 8, 9>>

\* C6: placement.  A field list with distinct names and no other defect is rejected with the
\* error of the unbounded placement exactly when some Variable List or
\* unbounded Byte Sequence is neither last nor the target of a Length field.
C6_Placement ==
    (out.op = "class" /\ WellFormed(candidate) /\ ~HasDuplicate(candidate))
    => (defined.error = UndefinedLengthError <=> Unplaced(candidate))

\* C7: duplicate names.  Defining a class whose field list names a field twice
\* fails.
C7_Duplicate ==
    (out.op = "class" /\ HasDuplicate(candidate)) => defined.error # NoError

\* C8: ownership.  A call on one instance leaves the field values and the
\* bytes of every other instance as they were.
C8_Ownership ==
    [][\A j \in Instances :
          (j # out'.i /\ inst[j] # NoPacket /\ inst'[j] # NoPacket)
          => Observed(inst'[j], Cells_next) = Observed(inst[j], Cells_now)]_vars

\* C9: initial values.  After construction a field named in the keyword
\* arguments holds the value given, and a field not named holds its default
\* when the schema declares one and zero or nothing otherwise.
C9_InitialValues ==
    (out.op = "init")
    => \A k \in 1..Len(Fields(cls)) :
            Fields(cls)[k].value.type.kind # "Length"
            => FieldValue(inst[out.i], Fields(cls)[k].key, Fields(cls)[k].value.type,
                          Cells_now)
                 = Expected(Fields(cls)[k], Kwargs(cls, out.pos))

\* C10: nested assignment.  Assigning to a nested field succeeds exactly when
\* the class of the value is the class the schema declares, and an assignment
\* that fails changes nothing.
C10_ExactClass ==
    [][(out'.op = "assign")
        => /\ out'.ok <=> out'.value.cls = FieldType(cls, out'.field).cls
           /\ ~out'.ok => /\ inst' = inst
                          /\ Cells_next = Cells_now]_vars

\* C11: minimal size.  For every accepted schema minimal_size(), called with
\* no instance, returns the sum of the byte widths of the fixed-size fields
\* (scalars, Length fields, Fixed Arrays, fixed-length Byte Sequences, nested
\* structures), a Variable List and an unbounded Byte Sequence counting 0; it
\* is 6 for [u8, u32, Length(u8), List, List].
C11_MinimalSize ==
    (out.op = "minimal_size")
    => /\ out.ok
       /\ out.pos = SchemaWidth(defined.fields, Len(defined.fields))
       /\ cls = "DefaultValuePacket" => out.pos = 6

\* C12: serialized size.  serialized_size() of an instance returns the number
\* of bytes serialize() gives for the same instance, for every kind of field,
\* lists and arrays of nested structures included, after appends and after
\* deserialize.
C12_SerializedSize ==
    (out.op = "serialized_size")
    => /\ out.ok
       /\ SerdepaPacket_serialize(inst[out.i], Cells_now).ok
            => out.pos = Len(SerdepaPacket_serialize(inst[out.i], Cells_now).bytes)

\* C13: byte sequence value.  The value of a Byte Sequence is the unsigned
\* integer written in base 256 by its stored bytes, the first stored byte the
\* most significant, whether the sequence has a fixed length, is trailing or
\* is bound to a Length field; the bytes 05 E8 F0 23 98 A9 in a sequence of
\* fixed length 6 give 0x05E8F02398A9 (0x05E8F0 = 387312, 0x2398A9 = 2332841).
C13_BigEndianValue ==
    (out.op = "value")
    => /\ out.value = Positional(dataContainer[<<cls, out.field>>])
       /\ (cls = "FixLen6Packet"
            /\ dataContainer[<<cls, out.field>>] = <<5, 232, 240, 35, 152, 169>>)
          => out.value = Wide(387312, 2332841)

\* C13 witness: the value was read after 05E8F02398A9 was deserialized into a
\* Byte Sequence of fixed length 6
C13_Witness ==
    /\ out.op = "value"
    /\ cls = "FixLen6Packet"
    /\ dataContainer[<<cls, out.field>>] = <<5, 232, 240, 35, 152, 169>>
    /\ out.value = Wide(387312, 2332841)

\* C14 as stated: a serialize call that returns, on a Fixed Array holding
\* fewer items than its length, emits the stored items followed by zero-valued
\* items, every byte of the padding being 0, and leaves the array holding the
\* items it held.
C14_ZeroPadding ==
    [][(out'.op = "serialize" /\ out'.ok)
        => \A k \in ArrayIndices(cls) :
            LET name == Fields(cls)[k].key
                type == Fields(cls)[k].value.type
                before == Items(cls, inst[out'.i].reg, name, type, Cells_now)
                after == Items(cls, inst'[out'.i].reg, name, type, Cells_next)
                stored == ItemsBytes(Container(type).type, before, Cells_now)
                width == Len(ConcatFields(inst'[out'.i], k, Cells_next))
                           - Len(ConcatFields(inst'[out'.i], k - 1, Cells_next))
                emitted == FieldBytes(inst'[out'.i], k, out'.bytes, width, Cells_next)
            IN Len(before) < Container(type).length
               => /\ after = before
                  /\ SubSeq(emitted, 1, Len(stored)) = stored
                  /\ \A j \in Len(stored) + 1 .. Len(emitted) : emitted[j] = 0]_vars

\* C14 amended: a serialize call that returns, on a Fixed Array holding k items,
\* k less than its length, emits the k stored items followed by length - k
\* newly constructed items of the item type (zero for a scalar, the declared
\* defaults for a nested structure) and nothing else, and leaves the array
\* holding the k items it held.
C14_DefaultPadding ==
    [][(out'.op = "serialize" /\ out'.ok)
        => \A k \in ArrayIndices(cls) :
            LET name == Fields(cls)[k].key
                type == Fields(cls)[k].value.type
                before == Items(cls, inst[out'.i].reg, name, type, Cells_now)
                after == Items(cls, inst'[out'.i].reg, name, type, Cells_next)
                expected == ItemsBytes(Container(type).type,
                                       before \o NewItems(Container(type).type,
                                                          Container(type).length - Len(before),
                                                          Cells_now),
                                       Cells_now)
                width == Len(ConcatFields(inst'[out'.i], k, Cells_next))
                           - Len(ConcatFields(inst'[out'.i], k - 1, Cells_next))
            IN Len(before) < Container(type).length
               => /\ after = before
                  /\ width = Len(expected)
                  /\ FieldBytes(inst'[out'.i], k, out'.bytes, width, Cells_next) = expected]_vars

\* C14 witness: an array of two structures holding one was serialized: the
\* stored structure is followed by one structure of the declared defaults, and
\* the array holds one item again
C14_Witness ==
    /\ out.op = "serialize" /\ out.ok
    /\ cls = "StructArrayPacket"
    /\ inst[out.i].reg["data"] = <<StampOf(7, 8)>>
    /\ out.bytes = <<0, 7, 8, 1, 0>>

\* C15: serialize always succeeds.  serialize() returns the bytes, without
\* raising, for every instance reached from construction by assignments of
\* integers to scalar fields, appends and deserialize calls.
C15_SerializeSucceeds ==
    (out.op = "serialize") => out.ok

\* C17: decoded count.  After a deserialize that succeeds, the number of items
\* held by the unbounded target of a Length field, which is also what the
\* accessor of the Length field returns, is the integer decoded from the bytes
\* of the Length field in the data, also when the target is the last field and
\* the data end right before it.
C17_DecodedCount ==
    (out.op = "deserialize" /\ out.ok)
    => \A k \in LengthIndices(cls) :
            Unbounded(FieldType(cls, TargetOf(cls, k)))
            => /\ ElementCount(inst[out.i], TargetOf(cls, k), Cells_now)
                    = LengthDecoded(inst[out.i], k, out.data, Cells_now)
               /\ FieldValue(inst[out.i], Fields(cls)[k].key, Fields(cls)[k].value.type,
                             Cells_now)
                    = LengthDecoded(inst[out.i], k, out.data, Cells_now)

\* C18: array filled.  After a deserialize that succeeds and has reached a Fixed
\* Array of configured length L, the array holds exactly L items, the ones the
\* data hold at its place, in order, whatever number of items it held before.
C18_ArrayFilled ==
    (out.op = "deserialize" /\ out.ok)
    => \A k \in ArrayIndices(cls) :
            LET name == Fields(cls)[k].key
                type == Fields(cls)[k].value.type
                items == Items(cls, inst[out.i].reg, name, type, Cells_now)
                offset == PacketWireSize(inst[out.i], k - 1, Cells_now)
                width == Container(type).length * NewItemSize(Container(type).type, Cells_now)
            IN offset < Len(out.data)
               => /\ Len(items) = Container(type).length
                  /\ ItemsBytes(Container(type).type, items, Cells_now)
                       = Slice(out.data, offset, width)

\* C16: shared schema.  When two threads each run serialize or deserialize on
\* their own instance of one schema, their loops interleaved field by field in
\* any order, each call ends as it ends when it runs alone, before the other
\* call or after it: the same outcome, the same bytes or position returned,
\* the same field values.
C16_Isolation ==
    \A t \in Instances :
        thread[t].status \in {"returned", "raised"}
        => thread[t].result \in {thread[t].alone, thread[t].after}

====
